---- MODULE Spec2Model ----
(***************************************************************************)
(* Model of the bid-worksheet loader and aggregator (src/logic.py), the    *)
(* older single-file variant (src/app.py) and the per-file loop of the     *)
(* dashboard (src/main.py).                                                *)
(*                                                                         *)
(* Text is a sequence of tokens.  A token is one character ("$", " ", "1") *)
(* or, inside section titles, a phrase that the code only ever tests as a  *)
(* whole ("Mill and Overlay", "Base Bid Total").  A value of the data      *)
(* frame is a record [isna, str]: isna is pandas' NaN, str the cell text.  *)
(* A column that pandas reads as numbers is kept as text: str() of such a  *)
(* number is a numeral that float() reads back as the same number.         *)
(* None is the empty value of its variable together with pc = "failed".    *)
(* float() is modelled on signed decimal numerals; exponents, "inf", "nan" *)
(* and digit-group underscores are outside the alphabet of the cells.      *)
(***************************************************************************)
EXTENDS Integers, Sequences, FiniteSets, TLC

VARIABLES
    pc,              \* position of the run: "start", "loaded", "failed", "stopped", ...
    lines,           \* number of lines of the file (len(lines) in load_bid_data)
    header_row,      \* cells of lines[6]
    contractor_row,  \* cells of lines[5]
    data_rows,       \* the lines after the header, each a sequence of cell texts
    df,              \* the data frame: rows [idx, cells, Section]
    contractor_map,  \* contractor name -> column entry
    section_list,    \* list of section titles
    parse_errors,    \* list of messages
    total_bids,      \* result of get_total_bids
    section_totals,  \* result of get_section_totals
    line_items,      \* first result of get_line_items_by_section
    display_map,     \* second result of get_line_items_by_section
    raw_value,       \* NumericCoercer: the value handed to the inline coercion
    outcome,         \* NumericCoercer: what the inline coercion made of it
    calls,           \* aggregation queries invoked on the document
    reassigned,      \* the Section column was computed again on the loaded frame
    main_state,      \* main(): "idle", "rendering", "error" (its except branch), "stopped"
    selected_csvs,   \* main(): the files selected in the sidebar, in their order
    processed,       \* main(): the files the loop over selected_csvs has gone through
    data_by_year,    \* main(): year -> df, contractor_map, section_list, section_totals
    project_names,   \* main(): year -> the project name of the file
    parse_errors_all,    \* main(): the messages of all files
    total_bids_by_year   \* year -> contractor -> sum of the section totals

vars == <<pc, lines, header_row, contractor_row, data_rows, df, contractor_map,
          section_list, parse_errors, total_bids, section_totals, line_items,
          display_map, raw_value, outcome, calls, reassigned, main_state,
          selected_csvs, processed, data_by_year, project_names,
          parse_errors_all, total_bids_by_year>>

\* the variables of the loop of main() over the selected files
files_vars == <<selected_csvs, processed, data_by_year, project_names,
                parse_errors_all, total_bids_by_year>>

-----------------------------------------------------------------------------
(* Bounds of the model *)

MaxCols == 3
MaxCellLen == 3
MaxRows == 2

-----------------------------------------------------------------------------
(* Text helpers: str.strip, str.replace, the "in" test *)

RECURSIVE LStrip(_, _)
LStrip(s, chars) ==
    IF s # <<>> /\ Head(s) \in chars THEN LStrip(Tail(s), chars) ELSE s

RECURSIVE RStrip(_, _)
RStrip(s, chars) ==
    IF s # <<>> /\ s[Len(s)] \in chars
    THEN RStrip(SubSeq(s, 1, Len(s) - 1), chars)
    ELSE s

StripChars(s, chars) == RStrip(LStrip(s, chars), chars)

Whitespace == {" "}

Strip(s) == StripChars(s, Whitespace)

Replace(s, ch) == SelectSeq(s, LAMBDA c : c # ch)

Contains(s, sub) ==
    \E i \in 0..(Len(s) - Len(sub)) : SubSeq(s, i + 1, i + Len(sub)) = sub

-----------------------------------------------------------------------------
(* Values of the data frame *)

NaN == [isna |-> TRUE, str |-> <<>>]

Str(text) == [isna |-> FALSE, str |-> text]

\* pandas.read_csv(na_values=["", "NaN", "nan"], keep_default_na=True): the
\* cell texts that are read as NaN ("N/A" and "NA" stand for the default list)
NaValues ==
    { <<>>, <<"N", "a", "N">>, <<"n", "a", "n">>, <<"N", "/", "A">>, <<"N", "A">> }

ReadCell(text) == IF text \in NaValues THEN NaN ELSE Str(text)

-----------------------------------------------------------------------------
(* float(): decimal numerals.  A number is [mant, frac], standing for       *)
(* mant / 10^frac, with no trailing zero in the fraction.                  *)

Digits == {"0", "1", "2", "3", "4", "5", "6", "7", "8", "9"}

DigitVal(c) ==
    CASE c = "0" -> 0 [] c = "1" -> 1 [] c = "2" -> 2 [] c = "3" -> 3
      [] c = "4" -> 4 [] c = "5" -> 5 [] c = "6" -> 6 [] c = "7" -> 7
      [] c = "8" -> 8 [] c = "9" -> 9

RECURSIVE Normalize(_, _)
Normalize(m, f) ==
    IF f > 0 /\ m % 10 = 0 THEN Normalize(m \div 10, f - 1)
    ELSE [mant |-> m, frac |-> f]

RECURSIVE DigitsValue(_)
DigitsValue(s) ==
    IF s = <<>> THEN 0
    ELSE 10 * DigitsValue(SubSeq(s, 1, Len(s) - 1)) + DigitVal(s[Len(s)])

NoFloat == [ok |-> FALSE, val |-> [mant |-> 0, frac |-> 0]]

PyFloat(s) ==
    LET t    == Strip(s)
        neg  == t # <<>> /\ Head(t) = "-"
        u    == IF t # <<>> /\ Head(t) \in {"-", "+"} THEN Tail(t) ELSE t
        dots == {i \in 1..Len(u) : u[i] = "."}
        ds   == SelectSeq(u, LAMBDA c : c # ".")
    IN  IF /\ \A i \in 1..Len(u) : u[i] \in Digits \cup {"."}
           /\ Cardinality(dots) <= 1
           /\ ds # <<>>
        THEN LET f == IF dots = {} THEN 0
                      ELSE Len(u) - (CHOOSE i \in dots : TRUE)
                 m == DigitsValue(ds)
             IN  [ok |-> TRUE, val |-> Normalize(IF neg THEN 0 - m ELSE m, f)]
        ELSE NoFloat

-----------------------------------------------------------------------------
(* NumericCoercer: the inline coercion of load_bid_data and of the queries *)

Absent == [kind |-> "absent"]

Present(v) == [kind |-> "number", val |-> v]

Failure(text) == [kind |-> "failure", raw |-> text]

\* a coercion that reads a blank cell as the number zero
NumericCoercerBlankIsZero(v) ==
    IF ~(~v.isna /\ Strip(v.str) # <<>>) THEN Present([mant |-> 0, frac |-> 0])
    ELSE LET f == PyFloat(Replace(Replace(v.str, "$"), ","))
         IN  IF f.ok THEN Present(f.val) ELSE Failure(v.str)

NumericCoercer(v) ==
    IF ~(~v.isna /\ Strip(v.str) # <<>>) THEN Absent
    ELSE LET f == PyFloat(Replace(Replace(v.str, "$"), ","))
         IN  IF f.ok THEN Present(f.val) ELSE Failure(v.str)

IsZero(n) == n.mant = 0

-----------------------------------------------------------------------------
(* ColumnMapper: the mapping loop of load_bid_data.  Column indices are    *)
(* 0-based as in the code; row[idx] of the code is row[idx + 1] here.      *)

contractor_row_index == 5

header_index == 6

EmptyMap == [k \in {} |-> 0]

\* contractor_row += [""] * (len(header_row) - len(contractor_row))
PadRow(crow, hdr) ==
    IF Len(crow) < Len(hdr)
    THEN crow \o [i \in 1..(Len(hdr) - Len(crow)) |-> <<>>]
    ELSE crow

\* an iteration that looks for the quantity two columns to the left
RegisterColumnQuantityTwoLeft(map, idx, hdr, crow) ==
    LET contractor == StripChars(crow[idx + 1], {"\"", " "})
    IN  IF hdr[idx + 1] = "Unit Price" /\ contractor # <<>>
        THEN LET e0 == IF contractor \in DOMAIN map THEN map[contractor]
                       ELSE EmptyMap
                 e1 == ("unit_price_col" :> idx)
                       @@ ("unit_price_col_name" :> hdr[idx + 1]) @@ e0
                 e2 == IF idx - 2 >= 0
                       THEN ("quantity_col" :> idx - 2)
                            @@ ("quantity_col_name" :> hdr[idx - 1]) @@ e1
                       ELSE e1
                 e3 == IF idx + 1 < Len(hdr)
                       THEN ("extension_col" :> idx + 1)
                            @@ ("extension_col_name" :> hdr[idx + 2]) @@ e2
                       ELSE e2
             IN  (contractor :> e3) @@ map
        ELSE map

\* an iteration that keeps the first column of a contractor already seen
RegisterColumnFirstWins(map, idx, hdr, crow) ==
    LET contractor == StripChars(crow[idx + 1], {"\"", " "})
    IN  IF hdr[idx + 1] = "Unit Price" /\ contractor # <<>>
           /\ contractor \notin DOMAIN map
        THEN LET e1 == ("unit_price_col" :> idx)
                       @@ ("unit_price_col_name" :> hdr[idx + 1])
                 e2 == IF idx - 1 >= 0
                       THEN ("quantity_col" :> idx - 1)
                            @@ ("quantity_col_name" :> hdr[idx]) @@ e1
                       ELSE e1
                 e3 == IF idx + 1 < Len(hdr)
                       THEN ("extension_col" :> idx + 1)
                            @@ ("extension_col_name" :> hdr[idx + 2]) @@ e2
                       ELSE e2
             IN  (contractor :> e3) @@ map
        ELSE map

\* one iteration of "for idx, col_name in enumerate(header_row)"
RegisterColumn(map, idx, hdr, crow) ==
    LET contractor == StripChars(crow[idx + 1], {"\"", " "})
    IN  IF hdr[idx + 1] = "Unit Price" /\ contractor # <<>>
        THEN LET e0 == IF contractor \in DOMAIN map THEN map[contractor]
                       ELSE EmptyMap
                 e1 == ("unit_price_col" :> idx)
                       @@ ("unit_price_col_name" :> hdr[idx + 1]) @@ e0
                 e2 == IF idx - 1 >= 0
                       THEN ("quantity_col" :> idx - 1)
                            @@ ("quantity_col_name" :> hdr[idx]) @@ e1
                       ELSE e1
                 e3 == IF idx + 1 < Len(hdr)
                       THEN ("extension_col" :> idx + 1)
                            @@ ("extension_col_name" :> hdr[idx + 2]) @@ e2
                       ELSE e2
             IN  (contractor :> e3) @@ map
        ELSE map

RECURSIVE MapFrom(_, _, _, _)
MapFrom(map, idx, hdr, crow) ==
    IF idx >= Len(hdr) THEN map
    ELSE MapFrom(RegisterColumn(map, idx, hdr, crow), idx + 1, hdr, crow)

ColumnMapper(hdr, crow) == MapFrom(EmptyMap, 0, hdr, PadRow(crow, hdr))

\* cols.get(key)
Has(cols, key) == key \in DOMAIN cols

-----------------------------------------------------------------------------
(* TableLoader: pandas.read_csv(skiprows=header_index) and dropna("all")   *)

\* position of a column label in the header (the first one carries the name)
ColIndex(hdr, name) == CHOOSE i \in 1..Len(hdr) :
    hdr[i] = name /\ \A j \in 1..(i - 1) : hdr[j] # name

ReadRow(cells) == [i \in 1..Len(cells) |-> ReadCell(cells[i])]

AllNa(cells) == \A i \in 1..Len(cells) : cells[i].isna

\* the frame before the Section column is added; idx is the index label,
\* which dropna leaves as it was
RECURSIVE ReadCsvFrom(_, _)
ReadCsvFrom(rows, i) ==
    IF i > Len(rows) THEN <<>>
    ELSE LET cells == ReadRow(rows[i])
         IN  (IF AllNa(cells) THEN <<>>
              ELSE << [idx |-> i - 1, cells |-> cells, Section |-> NaN] >>)
             \o ReadCsvFrom(rows, i + 1)

ReadCsv(rows) == ReadCsvFrom(rows, 1)

\* df["Section Title"] of one row
SectionTitle(hdr, row) == row.cells[ColIndex(hdr, "Section Title")]

\* row.iloc[k]; the Section column is the last one
Iloc(row, k) == IF k < Len(row.cells) THEN row.cells[k + 1] ELSE row.Section

RowLen(row) == Len(row.cells) + 1

-----------------------------------------------------------------------------
(* SectionAssigner and section_list *)

\* df["Section"] = df["Section Title"].where(notna).ffill(): rows from
\* position i on, cur being the last title seen that is not NaN
RECURSIVE FillFrom(_, _, _, _)
FillFrom(hdr, rows, i, cur) ==
    IF i > Len(rows) THEN <<>>
    ELSE LET t   == SectionTitle(hdr, rows[i])
             now == IF ~t.isna THEN t ELSE cur
         IN  << [rows[i] EXCEPT !.Section = now] >>
             \o FillFrom(hdr, rows, i + 1, now)

\* a fill whose running title survives from the previous run
SectionAssignerCarried(hdr, rows) ==
    FillFrom(hdr, rows, 1, IF rows = <<>> THEN NaN ELSE rows[Len(rows)].Section)

SectionAssigner(hdr, rows) == FillFrom(hdr, rows, 1, NaN)

\* Series.dropna().unique(): first appearances, in order
RECURSIVE Unique(_)
Unique(seq) ==
    IF seq = <<>> THEN <<>>
    ELSE LET init == SubSeq(seq, 1, Len(seq) - 1)
             last == seq[Len(seq)]
         IN  IF \E i \in 1..Len(init) : init[i] = last
             THEN Unique(init)
             ELSE Append(Unique(init), last)

Titles(hdr, rows) == [i \in 1..Len(rows) |-> SectionTitle(hdr, rows[i])]

BaseBidWord == <<"Base Bid Total">>

KeepsSection(v) == Strip(v.str) # <<>> /\ ~Contains(v.str, BaseBidWord)

SectionList(hdr, rows) ==
    LET seen == Unique(SelectSeq(Titles(hdr, rows), LAMBDA v : ~v.isna))
        kept == SelectSeq(seen, KeepsSection)
    IN  [i \in 1..Len(kept) |-> kept[i].str]

-----------------------------------------------------------------------------
(* Validator *)

\* contractor_map.items(): contractors in the order of their first column
RECURSIVE KeysFrom(_, _, _)
KeysFrom(idx, hdr, crow) ==
    IF idx >= Len(hdr) THEN <<>>
    ELSE LET contractor == StripChars(crow[idx + 1], {"\"", " "})
         IN  (IF hdr[idx + 1] = "Unit Price" /\ contractor # <<>>
              THEN <<contractor>> ELSE <<>>)
             \o KeysFrom(idx + 1, hdr, crow)

Keys(hdr, crow) == Unique(KeysFrom(0, hdr, PadRow(crow, hdr)))

\* one of the three checks of a row: the value is that of the row at
\* POSITION idx + 1, in the first column that carries the label
FieldErrors(hdr, rows, row, contractor, cols, key, field) ==
    IF Has(cols, key) /\ row.idx + 1 < Len(rows)
    THEN LET value == rows[row.idx + 2].cells[ColIndex(hdr, cols[key])]
         IN  IF NumericCoercer(value).kind = "failure"
             THEN << [row |-> row.idx + 2, contractor |-> contractor,
                      field |-> field, raw |-> value.str] >>
             ELSE <<>>
    ELSE <<>>

ContractorErrors(hdr, rows, row, contractor, cols) ==
    FieldErrors(hdr, rows, row, contractor, cols, "quantity_col_name", "quantity")
    \o FieldErrors(hdr, rows, row, contractor, cols, "unit_price_col_name", "unit price")
    \o FieldErrors(hdr, rows, row, contractor, cols, "extension_col_name", "extension")

RECURSIVE RowErrors(_, _, _, _, _, _)
RowErrors(hdr, rows, row, map, keys, k) ==
    IF k > Len(keys) THEN <<>>
    ELSE ContractorErrors(hdr, rows, row, keys[k], map[keys[k]])
         \o RowErrors(hdr, rows, row, map, keys, k + 1)

RECURSIVE ValidateFrom(_, _, _, _, _)
ValidateFrom(hdr, rows, map, keys, i) ==
    IF i > Len(rows) THEN <<>>
    ELSE RowErrors(hdr, rows, rows[i], map, keys, 1)
         \o ValidateFrom(hdr, rows, map, keys, i + 1)

Validator(hdr, crow, rows, map) == ValidateFrom(hdr, rows, map, Keys(hdr, crow), 1)

-----------------------------------------------------------------------------
(* Aggregator *)

BaseBidMarker == <<"Base Bid Total", ":">>

\* "if value != 0": a number that is zero is not recorded
NonZero(c) == IF c.kind = "number" /\ ~IsZero(c.val) THEN c ELSE Absent

\* a query that records a zero like any other number
PricedWithZero(row, cols, key) ==
    IF Has(cols, key) /\ cols[key] < RowLen(row)
    THEN LET c == NumericCoercer(Iloc(row, cols[key]))
         IN  IF c.kind = "number" THEN c ELSE Absent
    ELSE Absent

\* the value a query records for a contractor in a row, at the column the
\* contractor's entry names under key
Priced(row, cols, key) ==
    IF Has(cols, key) /\ cols[key] < RowLen(row)
    THEN NonZero(NumericCoercer(Iloc(row, cols[key])))
    ELSE Absent

RowTotals(row, map) ==
    LET included == {c \in DOMAIN map :
                        Priced(row, map[c], "extension_col").kind = "number"}
    IN  [c \in included |-> Priced(row, map[c], "extension_col").val]

get_total_bids(hdr, rows, map) ==
    LET base_bid_row ==
            SelectSeq(rows, LAMBDA r : Contains(SectionTitle(hdr, r).str, BaseBidMarker))
    IN  IF base_bid_row = <<>> THEN EmptyMap
        ELSE RowTotals(base_bid_row[1], map)

SectionRows(hdr, rows, section) ==
    SelectSeq(rows, LAMBDA r : ~SectionTitle(hdr, r).isna
                               /\ Strip(SectionTitle(hdr, r).str) = section)

\* a query that trims the section as well and files the totals under the
\* trimmed title
get_section_totalsTrimmedKeys(hdr, rows, map, sections) ==
    LET found == {i \in 1..Len(sections) :
                     /\ SectionRows(hdr, rows, Strip(sections[i])) # <<>>
                     /\ RowTotals(SectionRows(hdr, rows, Strip(sections[i]))[1], map)
                            # EmptyMap}
    IN  [s \in {Strip(sections[i]) : i \in found} |->
            RowTotals(SectionRows(hdr, rows, s)[1], map)]

get_section_totals(hdr, rows, map, sections) ==
    LET found == {i \in 1..Len(sections) :
                     /\ SectionRows(hdr, rows, sections[i]) # <<>>
                     /\ RowTotals(SectionRows(hdr, rows, sections[i])[1], map) # EmptyMap}
    IN  [s \in {sections[i] : i \in found} |->
            RowTotals(SectionRows(hdr, rows, s)[1], map)]

-----------------------------------------------------------------------------
(* get_line_items_by_section *)

HasColumn(hdr, name) == \E i \in 1..Len(hdr) : hdr[i] = name

\* str(value): NaN reads "nan"; a text reads as it stands in the file (a
\* column that pandas read as numbers prints the number, 1 or 1.0)
PyStr(v) == IF v.isna THEN <<"nan">> ELSE v.str

ItemDescription(hdr, row) == row.cells[ColIndex(hdr, "Item Description")]

LineItem(hdr, row) == row.cells[ColIndex(hdr, "Line Item")]

\* df["Section"].unique() without NaN
SectionsOf(rows) == {rows[i].Section.str : i \in {j \in 1..Len(rows) : ~rows[j].Section.isna}}

\* df[df["Section"] == section]
SectionFrame(rows, section) ==
    SelectSeq(rows, LAMBDA r : ~r.Section.isna /\ r.Section.str = section)

\* desc_counts.get(desc, 0): value_counts() counts the descriptions as they
\* were read, NaN left out
DescCount(hdr, section_df, desc) ==
    Cardinality({i \in 1..Len(section_df) :
                    /\ ~ItemDescription(hdr, section_df[i]).isna
                    /\ ItemDescription(hdr, section_df[i]).str = desc})

UniqueKey(desc, line) == desc \o <<" (Line ">> \o line \o <<")">>

DisplayName(hdr, section_df, desc, line) ==
    IF DescCount(hdr, section_df, desc) > 1
    THEN desc \o <<" [Line ">> \o line \o <<"]">>
    ELSE desc

\* the dict unit_prices of one row: every contractor's cell is coerced once
UnitPrices(row, map) ==
    LET priced   == {[contractor |-> c, price |-> Priced(row, map[c], "unit_price_col")] :
                        c \in DOMAIN map}
        included == {p \in priced : p.price.kind = "number"}
    IN  [c \in {p.contractor : p \in included} |->
            (CHOOSE p \in included : p.contractor = c).price.val]

\* dict[key] = value
Put(dict, key, value) ==
    [k \in DOMAIN dict \cup {key} |-> IF k = key THEN value ELSE dict[k]]

\* "if unit_prices:" and the two assignments under it
Record(acc, unique_key, display_name, unit_prices) ==
    IF unit_prices = EmptyMap THEN acc
    ELSE [items         |-> Put(acc.items, unique_key, unit_prices),
          display_names |-> Put(acc.display_names, display_name, unique_key)]

\* the loop over section_df.iterrows() from position i on
RECURSIVE SectionItems(_, _, _, _, _)
SectionItems(hdr, section_df, map, i, acc) ==
    IF i > Len(section_df) THEN acc
    ELSE LET row  == section_df[i]
             desc == Strip(ItemDescription(hdr, row).str)
             line == Strip(PyStr(LineItem(hdr, row)))
         IN  SectionItems(hdr, section_df, map, i + 1,
                 IF ItemDescription(hdr, row).isna THEN acc
                 ELSE Record(acc, UniqueKey(desc, line),
                             DisplayName(hdr, section_df, desc, line),
                             UnitPrices(row, map)))

ItemsOf(hdr, rows, map, section) ==
    SectionItems(hdr, SectionFrame(rows, section), map, 1,
                 [items |-> EmptyMap, display_names |-> EmptyMap])

\* section_df["Item Description"] or row["Line Item"] raises KeyError
LineItemsRaises(hdr, rows) ==
    /\ SectionsOf(rows) # {}
    /\ \/ ~HasColumn(hdr, "Item Description")
       \/ /\ ~HasColumn(hdr, "Line Item")
          /\ \E i \in 1..Len(rows) :
                ~rows[i].Section.isna /\ ~ItemDescription(hdr, rows[i]).isna

\* a query that files every section, also one without items
get_line_items_by_sectionEverySection(hdr, rows, map) ==
    [line_items  |-> [s \in SectionsOf(rows) |-> ItemsOf(hdr, rows, map, s).items],
     display_map |-> [s \in SectionsOf(rows) |->
                         ItemsOf(hdr, rows, map, s).display_names]]

get_line_items_by_section(hdr, rows, map) ==
    LET found == {[section |-> s, of |-> ItemsOf(hdr, rows, map, s)] : s \in SectionsOf(rows)}
        kept  == {f \in found : f.of.items # EmptyMap}
    IN  [line_items  |-> [s \in {f.section : f \in kept} |->
                             (CHOOSE f \in kept : f.section = s).of.items],
         display_map |-> [s \in {f.section : f \in kept} |->
                             (CHOOSE f \in kept : f.section = s).of.display_names]]

-----------------------------------------------------------------------------
(* The files the model reads *)

RECURSIVE SeqsUpTo(_, _)
SeqsUpTo(S, n) ==
    IF n = 0 THEN {<<>>}
    ELSE LET shorter == SeqsUpTo(S, n - 1)
         IN  shorter \cup {Append(q, x) : q \in {r \in shorter : Len(r) = n - 1}, x \in S}

HeaderLabels == {"Section Title", "Unit Price", "Extension"}

\* cells of the contractor row as csv.reader leaves them
\* (a cell the reader left empty is what the padding of a short row adds)
NameCells == { <<" ">>, <<"A">>, <<"\"", "B", " ">> }

AcmeCo == <<"A", "c", "m", "e", " ", "C", "o">>

ExampleHeader ==
    <<"Section Title", "Line Item", "Item Description", "Quantity", "UofM",
      "Unit Price", "Extension">>

ExampleContractorRow == << <<>>, <<>>, <<>>, <<>>, <<>>, AcmeCo, <<>> >>

\* a worksheet of two contractors
DocHeader ==
    <<"Section Title", "Line Item", "Item Description", "Quantity",
      "Unit Price", "Extension", "Unit Price", "Extension">>

DocContractorRow == << <<>>, <<>>, <<>>, <<>>, <<"A">>, <<>>, <<"B">>, <<>> >>

Overlay == <<"S.3887 2025 ", "Mill and Overlay">>

Alternate1 == <<"Alternate 1 ", "section - required">>

BaseBidTotal == <<"Base Bid Total", ":">>

Notes == <<"Notes">>

TitleCells == { <<>>, Overlay, Alternate1, Alternate1 \o <<" ">>, BaseBidTotal, Notes }

Money1234_50 == <<"$", "1", ",", "2", "3", "4", ".", "5", "0">>

Money1234_00 == <<"$", "1", ",", "2", "3", "4", ".", "0", "0">>

Abc == <<"a", "b", "c">>

ExtCellsA == { <<>>, <<"0">>, Money1234_50, Abc }

ExtCellsB == { <<>>, <<"$", "5">> }

BlankRow == [i \in 1..Len(DocHeader) |-> <<>>]

DataRow(title, extA, extB) ==
    << title, <<"1">>, <<"x">>, <<"2">>, <<"$", "5">>, extA, <<"$", "5">>, extB >>

\* the rows of a worksheet: a blank line of commas, a row of every title,
\* a base-bid-total row of every pair of extensions, and section rows whose
\* extensions vary
RowChoices ==
    {BlankRow}
    \cup {DataRow(t, Money1234_50, <<>>) : t \in TitleCells}
    \cup {DataRow(BaseBidTotal, a, b) : a \in ExtCellsA, b \in ExtCellsB}
    \cup {DataRow(Alternate1, a, <<"$", "5">>) : a \in ExtCellsA}
    \cup {DataRow(Alternate1 \o <<" ">>, <<>>, <<"$", "5">>)}

NotAvailable == <<"N", "/", "A">>

ItemRow(title, line, desc, priceA, priceB) ==
    << title, line, desc, <<"2">>, priceA, <<>>, priceB, <<>> >>

\* the row that opens the section of the items
OverlayRow == ItemRow(Overlay, <<>>, <<>>, <<>>, <<>>)

\* item rows: the same description on two lines, on the same line, with a
\* trailing space, without a line number, without a description; prices
\* that are zero, not numeric, "N/A" or missing; an item that opens a section
ItemChoices ==
    { ItemRow(<<>>, <<"1">>, <<"x">>, <<"$", "5">>, <<>>),
      ItemRow(<<>>, <<"2">>, <<"x">>, <<"$", "5">>, <<"$", "5">>),
      ItemRow(<<>>, <<"1">>, <<"x">>, <<>>, <<"$", "5">>),
      ItemRow(<<>>, <<"2">>, <<"x", " ">>, <<"$", "5">>, <<>>),
      ItemRow(<<>>, <<"1">>, <<"y">>, <<"0">>, <<>>),
      ItemRow(<<>>, <<"1">>, <<"y">>, Abc, <<"$", "5">>),
      ItemRow(<<>>, <<"2">>, <<"y">>, <<>>, Abc),
      ItemRow(Alternate1, <<"1">>, <<"x">>, <<"$", "5">>, <<>>),
      ItemRow(<<>>, <<>>, <<"x">>, <<"$", "5">>, <<>>),
      ItemRow(<<>>, <<"1">>, <<>>, <<"$", "5">>, <<>>),
      ItemRow(<<>>, <<"2">>, <<"y">>, <<"$", "5">>, NotAvailable) }

Doc(n, hdr, crow, rows) ==
    [lines |-> n, header_row |-> hdr, contractor_row |-> crow, data_rows |-> rows]

ShortDocs == {Doc(n, <<>>, <<>>, <<>>) : n \in 0..header_index}

\* files of a header and a contractor row that is no longer than the header
MapperDocs ==
    {d \in {Doc(header_index + 1, h, c, <<>>) :
                h \in SeqsUpTo(HeaderLabels, MaxCols) \ {<<>>},
                c \in SeqsUpTo(NameCells, MaxCols)} :
        Len(d.contractor_row) <= Len(d.header_row)}

ExampleDocs == {Doc(header_index + 1, ExampleHeader, ExampleContractorRow, <<>>)}

RowDocs ==
    {Doc(header_index + 1 + Len(rows), DocHeader, DocContractorRow, rows) :
        rows \in SeqsUpTo(RowChoices, MaxRows)}

\* the same worksheet without its last column: the second contractor has
\* no extension column
NarrowDocs ==
    {Doc(header_index + 2, SubSeq(DocHeader, 1, Len(DocHeader) - 1),
         SubSeq(DocContractorRow, 1, Len(DocHeader) - 1),
         << SubSeq(r, 1, Len(DocHeader) - 1) >>) : r \in RowChoices}

\* a section row and the item rows under it
ItemDocs ==
    {Doc(header_index + 2 + Len(rows), DocHeader, DocContractorRow,
         <<OverlayRow>> \o rows) : rows \in SeqsUpTo(ItemChoices, MaxRows)}

\* the worksheet without a contractor name in row 6
NoContractorDocs ==
    {Doc(header_index + 1 + Len(rows), DocHeader, <<>>, rows) :
        rows \in SeqsUpTo(RowChoices, 1)}

Docs == ShortDocs \cup MapperDocs \cup ExampleDocs \cup RowDocs \cup NarrowDocs
            \cup ItemDocs \cup NoContractorDocs

NoValue == Str(<<>>)

Init ==
    /\ \E d \in Docs :
          /\ lines = d.lines
          /\ header_row = d.header_row
          /\ contractor_row = d.contractor_row
          /\ data_rows = d.data_rows
    /\ pc = "start"
    /\ df = <<>>
    /\ contractor_map = EmptyMap
    /\ section_list = <<>>
    /\ parse_errors = <<>>
    /\ total_bids = EmptyMap
    /\ section_totals = EmptyMap
    /\ line_items = EmptyMap
    /\ display_map = EmptyMap
    /\ raw_value = NoValue
    /\ outcome = Absent
    /\ calls = {}
    /\ reassigned = FALSE
    /\ main_state = "idle"
    /\ selected_csvs = <<>>
    /\ processed = 0
    /\ data_by_year = EmptyMap
    /\ project_names = EmptyMap
    /\ parse_errors_all = <<>>
    /\ total_bids_by_year = EmptyMap

-----------------------------------------------------------------------------
(* load_bid_data *)

\* what load_bid_data hands back: status "failed" is the tuple
\* (None, None, None, [message]), "stopped" is st.stop() in the except branch
\* (df["Section Title"] raised KeyError), "loaded" the tuple of the four results
Load(n, hdr, crow, rows) ==
    IF n <= header_index
    THEN [status |-> "failed", df |-> <<>>, contractor_map |-> EmptyMap,
          section_list |-> <<>>,
          parse_errors |-> << [row |-> 0, contractor |-> <<>>,
                               field |-> "file", raw |-> <<>>] >>]
    ELSE IF \A i \in 1..Len(hdr) : hdr[i] # "Section Title"
    THEN [status |-> "stopped", df |-> <<>>, contractor_map |-> EmptyMap,
          section_list |-> <<>>, parse_errors |-> <<>>]
    ELSE LET map   == ColumnMapper(hdr, crow)
             frame == SectionAssigner(hdr, ReadCsv(rows))
         IN  [status |-> "loaded", df |-> frame, contractor_map |-> map,
              section_list |-> SectionList(hdr, frame),
              parse_errors |-> Validator(hdr, crow, frame, map)]

LoadBidData ==
    /\ pc = "start"
    /\ LET r == Load(lines, header_row, contractor_row, data_rows)
       IN  /\ pc' = r.status
           /\ df' = r.df
           /\ contractor_map' = r.contractor_map
           /\ section_list' = r.section_list
           /\ parse_errors' = r.parse_errors
    /\ UNCHANGED <<lines, header_row, contractor_row, data_rows, total_bids,
                   section_totals, line_items, display_map, raw_value,
                   outcome, calls, reassigned, main_state, files_vars>>

\* line 81 of logic.py once more, on the frame that already has its Section
AssignSections ==
    /\ pc = "loaded"
    /\ df' = SectionAssigner(header_row, df)
    /\ reassigned' = TRUE
    /\ UNCHANGED <<pc, lines, header_row, contractor_row, data_rows,
                   contractor_map, section_list, parse_errors, total_bids,
                   section_totals, line_items, display_map, raw_value,
                   outcome, calls, main_state, files_vars>>

\* a query that filters the frame it was handed down to the rows it reads
GetTotalBidsFilteringFrame ==
    /\ pc = "loaded"
    /\ total_bids' = get_total_bids(header_row, df, contractor_map)
    /\ df' = SelectSeq(df, LAMBDA r :
                 Contains(SectionTitle(header_row, r).str, BaseBidMarker))
    /\ calls' = calls \cup {"get_total_bids"}
    /\ UNCHANGED <<pc, lines, header_row, contractor_row, data_rows,
                   contractor_map, section_list, parse_errors, section_totals,
                   line_items, display_map, raw_value, outcome, reassigned,
                   main_state, files_vars>>

GetTotalBids ==
    /\ pc = "loaded"
    /\ total_bids' = get_total_bids(header_row, df, contractor_map)
    /\ calls' = calls \cup {"get_total_bids"}
    /\ UNCHANGED <<pc, lines, header_row, contractor_row, data_rows, df,
                   contractor_map, section_list, parse_errors, section_totals,
                   line_items, display_map, raw_value, outcome, reassigned,
                   main_state, files_vars>>

GetSectionTotals ==
    /\ pc = "loaded"
    /\ section_totals' =
           get_section_totals(header_row, df, contractor_map, section_list)
    /\ calls' = calls \cup {"get_section_totals"}
    /\ UNCHANGED <<pc, lines, header_row, contractor_row, data_rows, df,
                   contractor_map, section_list, parse_errors, total_bids,
                   line_items, display_map, raw_value, outcome, reassigned,
                   main_state, files_vars>>

GetLineItems ==
    /\ pc = "loaded"
    /\ calls' = calls \cup {"get_line_items_by_section"}
    /\ IF LineItemsRaises(header_row, df)
       THEN /\ pc' = "raised"
            /\ UNCHANGED <<line_items, display_map>>
       ELSE LET r == get_line_items_by_section(header_row, df, contractor_map)
            IN  /\ line_items' = r.line_items
                /\ display_map' = r.display_map
                /\ pc' = pc
    /\ UNCHANGED <<lines, header_row, contractor_row, data_rows, df,
                   contractor_map, section_list, parse_errors, total_bids,
                   section_totals, raw_value, outcome, reassigned, main_state, files_vars>>

\* main(): the body of "for csv_file in selected_csvs" for one file.  An
\* empty file ends in next(reader) raising StopIteration; the result of
\* load_bid_data goes to get_section_totals as it is, and iterating the
\* section list None raises TypeError; both end in main's except branch.
MainLoopBody ==
    /\ main_state = "idle"
    /\ pc = "start"
    /\ IF lines = 0
       THEN /\ main_state' = "error"
            /\ UNCHANGED <<pc, df, contractor_map, section_list, parse_errors,
                           section_totals, calls>>
       ELSE LET r == Load(lines, header_row, contractor_row, data_rows)
            IN  /\ pc' = r.status
                /\ df' = r.df
                /\ contractor_map' = r.contractor_map
                /\ section_list' = r.section_list
                /\ parse_errors' = r.parse_errors
                /\ IF r.status = "stopped"
                   THEN /\ main_state' = "stopped"
                        /\ UNCHANGED <<section_totals, calls>>
                   ELSE /\ calls' = calls \cup {"get_section_totals"}
                        /\ IF r.status = "failed"
                           THEN /\ main_state' = "error"
                                /\ UNCHANGED section_totals
                           ELSE /\ main_state' = "rendering"
                                /\ section_totals' =
                                      get_section_totals(header_row, r.df,
                                          r.contractor_map, r.section_list)
    /\ UNCHANGED <<lines, header_row, contractor_row, data_rows, total_bids,
                   line_items, display_map, raw_value, outcome, reassigned,
                   files_vars>>

Next ==
    \/ LoadBidData
    \/ AssignSections
    \/ GetTotalBids
    \/ GetSectionTotals
    \/ GetLineItems

Spec == Init /\ [][Next]_vars

\* the values handed to the inline coercion: NaN and every text up to
\* MaxCellLen characters, and the amounts of a worksheet
CoerceChars == {"$", ",", " ", ".", "-", "0", "1", "a"}

CoerceInputs ==
    {NaN} \cup {Str(t) : t \in SeqsUpTo(CoerceChars, MaxCellLen)}
          \cup {Str(Money1234_00), Str(Money1234_50), Str(Abc)}

InitCoerce ==
    /\ raw_value \in CoerceInputs
    /\ pc = "coerce"
    /\ lines = 0
    /\ header_row = <<>>
    /\ contractor_row = <<>>
    /\ data_rows = <<>>
    /\ df = <<>>
    /\ contractor_map = EmptyMap
    /\ section_list = <<>>
    /\ parse_errors = <<>>
    /\ total_bids = EmptyMap
    /\ section_totals = EmptyMap
    /\ line_items = EmptyMap
    /\ display_map = EmptyMap
    /\ outcome = Absent
    /\ calls = {}
    /\ reassigned = FALSE
    /\ main_state = "idle"
    /\ selected_csvs = <<>>
    /\ processed = 0
    /\ data_by_year = EmptyMap
    /\ project_names = EmptyMap
    /\ parse_errors_all = <<>>
    /\ total_bids_by_year = EmptyMap

\* the coercion of one value, as the validator and the queries do it
CoerceValue ==
    /\ pc = "coerce"
    /\ outcome' = NumericCoercer(raw_value)
    /\ pc' = "coerced"
    /\ UNCHANGED <<lines, header_row, contractor_row, data_rows, df,
                   contractor_map, section_list, parse_errors, total_bids,
                   section_totals, line_items, display_map, raw_value, calls,
                   reassigned, main_state, files_vars>>

NextCoerce == CoerceValue

SpecCoerce == InitCoerce /\ [][NextCoerce]_vars

NextMain == MainLoopBody

SpecMain == Init /\ [][NextMain]_vars

-----------------------------------------------------------------------------
(* main(): the loop over the selected files and the totals by year *)

MaxFiles == 2

\* re.search(r"(20\d{2})", csv_file): the place of the leftmost match, 0 if
\* there is none
YearAt(name) ==
    LET found == {i \in 1..(Len(name) - 3) :
                     /\ name[i] = "2"
                     /\ name[i + 1] = "0"
                     /\ name[i + 2] \in Digits
                     /\ name[i + 3] \in Digits}
    IN  IF found = {} THEN 0 ELSE CHOOSE i \in found : \A j \in found : i <= j

\* year = match.group(1) if match else csv_file
YearOf(name) ==
    IF YearAt(name) = 0 THEN name ELSE SubSeq(name, YearAt(name), YearAt(name) + 3)

\* the length of a match of \s*\([^)]*\) at the start of a text, 0 if it
\* does not match there
GroupAt(text) ==
    LET rest   == LStrip(text, Whitespace)
        open   == Len(text) - Len(rest) + 1
        closes == {k \in (open + 1)..Len(text) : text[k] = ")"}
    IN  IF rest # <<>> /\ Head(rest) = "(" /\ closes # {}
        THEN CHOOSE k \in closes : \A j \in closes : k <= j
        ELSE 0

\* re.sub(r"\s*\([^)]*\)", "", project_name)
RECURSIVE RemoveGroups(_)
RemoveGroups(text) ==
    IF text = <<>> THEN <<>>
    ELSE IF GroupAt(text) > 0
    THEN RemoveGroups(SubSeq(text, GroupAt(text) + 1, Len(text)))
    ELSE <<Head(text)>> \o RemoveGroups(Tail(text))

UnknownProject == <<"Unknown Project">>

\* first_row[0] if first_row else "Unknown Project", without its
\* parenthesised parts and stripped
ProjectName(first_row) ==
    Strip(RemoveGroups(IF first_row = <<>> THEN UnknownProject ELSE first_row[1]))

\* the entry of data_by_year that a loaded file gets
YearEntry(doc, r) ==
    [df |-> r.df, contractor_map |-> r.contractor_map,
     section_list |-> r.section_list,
     section_totals |-> get_section_totals(doc.header_row, r.df,
                            r.contractor_map, r.section_list)]

\* f"{csv_file}: {err}" for every message of the file
Prefixed(name, errors) == [i \in 1..Len(errors) |-> [file |-> name, err |-> errors[i]]]

\* m * 10^k
RECURSIVE Shift(_, _)
Shift(m, k) == IF k = 0 THEN m ELSE Shift(m * 10, k - 1)

\* a + b of two numbers; the amounts of the worksheets are sums that a
\* float holds exactly
Plus(a, b) ==
    IF a.frac >= b.frac
    THEN Normalize(a.mant + Shift(b.mant, a.frac - b.frac), a.frac)
    ELSE Normalize(Shift(a.mant, b.frac - a.frac) + b.mant, b.frac)

Zero == [mant |-> 0, frac |-> 0]

\* total_by_contractor.get(contractor, 0) + val over the given sections
RECURSIVE TotalOver(_, _, _)
TotalOver(totals, sections, contractor) ==
    IF sections = {} THEN Zero
    ELSE LET s == CHOOSE x \in sections : TRUE
         IN  Plus(IF contractor \in DOMAIN totals[s] THEN totals[s][contractor] ELSE Zero,
                  TotalOver(totals, sections \ {s}, contractor))

\* total_by_contractor of one year
TotalByContractor(totals) ==
    [c \in UNION {DOMAIN totals[s] : s \in DOMAIN totals} |->
        TotalOver(totals, DOMAIN totals, c)]

\* calculate_total_bids_by_year, which main() has inline: for every year the
\* sum of its section totals by contractor, and the contractors of all years
calculate_total_bids_by_year(data) ==
    [total_bids_by_year |->
        [year \in DOMAIN data |-> TotalByContractor(data[year].section_totals)],
     all_contractors |->
        UNION {DOMAIN TotalByContractor(data[year].section_totals) : year \in DOMAIN data}]

\* the characters of the keys of data_by_year in the order of their code points
CodePoints ==
    <<".", "0", "1", "2", "3", "4", "5", "6", "7", "8", "9",
      "a", "b", "c", "d", "i", "s", "v">>

Ord(ch) == CHOOSE i \in 1..Len(CodePoints) : CodePoints[i] = ch

\* a < b of two str
RECURSIVE StrLess(_, _)
StrLess(a, b) ==
    IF b = <<>> THEN FALSE
    ELSE IF a = <<>> THEN TRUE
    ELSE IF Head(a) = Head(b) THEN StrLess(Tail(a), Tail(b))
    ELSE Ord(Head(a)) < Ord(Head(b))

\* sorted(data_by_year.keys())[-1]
LatestYear(data) ==
    CHOOSE y \in DOMAIN data : \A z \in DOMAIN data : z = y \/ StrLess(z, y)

\* the names of the files of the folder
FileNames ==
    { <<"2", "0", "2", "3", "a", ".", "c", "s", "v">>,
      <<"2", "0", "2", "3", "b", ".", "c", "s", "v">>,
      <<"2", "0", "2", "4", ".", "c", "s", "v">>,
      <<"b", "i", "d", "s", ".", "c", "s", "v">> }

\* the first rows of the files: an empty line, and a project name with a
\* parenthesised part
FirstRows == { <<>>, << <<"M", "i", "l", "l", " ", "(", "v", "2", ")", " ">> >> }

\* the contents of the files: worksheets of two sections that differ in one
\* extension, an empty file, a file that ends before its header row, and a
\* file without the Section Title column
FileDocs ==
    {Doc(header_index + 3, DocHeader, DocContractorRow,
         << DataRow(Overlay, Money1234_50, <<"$", "5">>),
            DataRow(Alternate1, a, <<"$", "5">>) >>) : a \in ExtCellsA}
    \cup {Doc(0, <<>>, <<>>, <<>>), Doc(header_index, <<>>, <<>>, <<>>)}
    \cup {Doc(header_index + 1, <<"Unit Price">>, << <<"A">> >>, <<>>)}

Files == {[name |-> n, first_row |-> f, doc |-> d] :
             n \in FileNames, f \in FirstRows, d \in FileDocs}

\* what st.sidebar.multiselect hands back: files of different names
Selections ==
    {sel \in SeqsUpTo(Files, MaxFiles) :
        \A i, j \in 1..Len(sel) : sel[i].name = sel[j].name => i = j}

InitFiles ==
    /\ selected_csvs \in Selections
    /\ processed = 0
    /\ data_by_year = EmptyMap
    /\ project_names = EmptyMap
    /\ parse_errors_all = <<>>
    /\ total_bids_by_year = EmptyMap
    /\ main_state = "idle"
    /\ pc = "files"
    /\ lines = 0
    /\ header_row = <<>>
    /\ contractor_row = <<>>
    /\ data_rows = <<>>
    /\ df = <<>>
    /\ contractor_map = EmptyMap
    /\ section_list = <<>>
    /\ parse_errors = <<>>
    /\ total_bids = EmptyMap
    /\ section_totals = EmptyMap
    /\ line_items = EmptyMap
    /\ display_map = EmptyMap
    /\ raw_value = NoValue
    /\ outcome = Absent
    /\ calls = {}
    /\ reassigned = FALSE

\* one turn of the loop over selected_csvs: next(reader) raises on an empty
\* file, get_section_totals raises on the result of a file that is too
\* short, st.stop() ends the run of a file without Section Title
ProcessFile ==
    /\ pc = "files"
    /\ main_state = "idle"
    /\ processed < Len(selected_csvs)
    /\ LET file == selected_csvs[processed + 1]
           year == YearOf(file.name)
           r    == Load(file.doc.lines, file.doc.header_row,
                        file.doc.contractor_row, file.doc.data_rows)
       IN  IF file.doc.lines = 0
           THEN /\ main_state' = "error"
                /\ UNCHANGED <<processed, data_by_year, project_names,
                               parse_errors_all>>
           ELSE /\ project_names' =
                       Put(project_names, year, ProjectName(file.first_row))
                /\ IF r.status = "loaded"
                   THEN /\ data_by_year' =
                               Put(data_by_year, year, YearEntry(file.doc, r))
                        /\ parse_errors_all' =
                               parse_errors_all \o Prefixed(file.name, r.parse_errors)
                        /\ processed' = processed + 1
                        /\ UNCHANGED main_state
                   ELSE /\ main_state' =
                               IF r.status = "stopped" THEN "stopped" ELSE "error"
                        /\ UNCHANGED <<processed, data_by_year, parse_errors_all>>
    /\ UNCHANGED <<pc, lines, header_row, contractor_row, data_rows, df,
                   contractor_map, section_list, parse_errors, total_bids,
                   section_totals, line_items, display_map, raw_value, outcome,
                   calls, reassigned, selected_csvs, total_bids_by_year>>

\* after the loop: st.stop() when no file is selected, else the model of the
\* latest year is the one on display, and the totals by year are computed
\* when more than one file is selected
ShowLatestYear ==
    /\ pc = "files"
    /\ main_state = "idle"
    /\ processed = Len(selected_csvs)
    /\ IF selected_csvs = <<>>
       THEN /\ main_state' = "stopped"
            /\ UNCHANGED <<df, contractor_map, section_list, section_totals,
                           total_bids_by_year>>
       ELSE /\ main_state' = "rendering"
            /\ df' = data_by_year[LatestYear(data_by_year)].df
            /\ contractor_map' = data_by_year[LatestYear(data_by_year)].contractor_map
            /\ section_list' = data_by_year[LatestYear(data_by_year)].section_list
            /\ section_totals' = data_by_year[LatestYear(data_by_year)].section_totals
            /\ total_bids_by_year' =
                  IF Len(selected_csvs) > 1
                  THEN calculate_total_bids_by_year(data_by_year).total_bids_by_year
                  ELSE total_bids_by_year
    /\ UNCHANGED <<pc, lines, header_row, contractor_row, data_rows,
                   parse_errors, total_bids, line_items, display_map, raw_value,
                   outcome, calls, reassigned, selected_csvs, processed,
                   data_by_year, project_names, parse_errors_all>>

NextFiles ==
    \/ ProcessFile
    \/ ShowLatestYear

SpecFiles == InitFiles /\ [][NextFiles]_vars

-----------------------------------------------------------------------------
(* Properties of ColumnMapper *)

QuoteOrSpace == {"\"", " "}

\* the cell of a row at a 0-based index; a missing cell reads as empty
CellAt(row, i) == IF i + 1 <= Len(row) THEN row[i + 1] ELSE <<>>

\* the text left of a cell once the quotes and spaces around it are gone
TrimmedName(cell) ==
    LET span == CHOOSE ab \in (1..(Len(cell) + 1)) \X (0..Len(cell)) :
                   /\ \A k \in 1..(ab[1] - 1) : cell[k] \in QuoteOrSpace
                   /\ \A k \in (ab[2] + 1)..Len(cell) : cell[k] \in QuoteOrSpace
                   /\ \/ ab[1] = ab[2] + 1
                      \/ /\ ab[1] <= ab[2]
                         /\ cell[ab[1]] \notin QuoteOrSpace
                         /\ cell[ab[2]] \notin QuoteOrSpace
    IN  SubSeq(cell, span[1], span[2])

UnitPriceIndices == {i \in 0..(Len(header_row) - 1) : header_row[i + 1] = "Unit Price"}

ColumnsOf(name) ==
    {i \in UnitPriceIndices : TrimmedName(CellAt(contractor_row, i)) = name}

\* C1: the contractors of the map are exactly the non-empty trimmed names
\* that stand over a "Unit Price" column, and each contractor's
\* unit_price_col is the greatest column that carries its name
MapperKeysAndLastColumn ==
    pc = "loaded" =>
        /\ DOMAIN contractor_map =
              {TrimmedName(CellAt(contractor_row, i)) : i \in UnitPriceIndices} \ {<<>>}
        /\ \A name \in DOMAIN contractor_map :
              /\ Has(contractor_map[name], "unit_price_col")
              /\ contractor_map[name]["unit_price_col"] \in ColumnsOf(name)
              /\ \A i \in ColumnsOf(name) : i <= contractor_map[name]["unit_price_col"]

\* a contractor stands over two "Unit Price" columns, and a cell was trimmed
MapperSeesRepeatedName ==
    /\ pc = "loaded"
    /\ \E name \in DOMAIN contractor_map : Cardinality(ColumnsOf(name)) >= 2
    /\ \E i \in UnitPriceIndices :
          /\ TrimmedName(CellAt(contractor_row, i)) # CellAt(contractor_row, i)
          /\ TrimmedName(CellAt(contractor_row, i)) \in DOMAIN contractor_map

\* C2: the example header and contractor row give the one contractor
\* "Acme Co" with quantity_col 3, unit_price_col 5 and extension_col 6
MapperExample ==
    (pc = "loaded" /\ header_row = ExampleHeader
       /\ contractor_row = ExampleContractorRow) =>
        /\ DOMAIN contractor_map = {AcmeCo}
        /\ Has(contractor_map[AcmeCo], "quantity_col")
        /\ Has(contractor_map[AcmeCo], "extension_col")
        /\ contractor_map[AcmeCo]["quantity_col"] = 3
        /\ contractor_map[AcmeCo]["unit_price_col"] = 5
        /\ contractor_map[AcmeCo]["extension_col"] = 6

\* C2, amended: the example gives the one contractor "Acme Co" with
\* unit_price_col 5, extension_col 6 and quantity_col 4, the column to the
\* left of "Unit Price", which this header labels "UofM"
MapperExampleLeftColumn ==
    (pc = "loaded" /\ header_row = ExampleHeader
       /\ contractor_row = ExampleContractorRow) =>
        /\ DOMAIN contractor_map = {AcmeCo}
        /\ Has(contractor_map[AcmeCo], "quantity_col")
        /\ Has(contractor_map[AcmeCo], "extension_col")
        /\ contractor_map[AcmeCo]["quantity_col"] = 4
        /\ contractor_map[AcmeCo]["quantity_col_name"] = "UofM"
        /\ contractor_map[AcmeCo]["unit_price_col"] = 5
        /\ contractor_map[AcmeCo]["extension_col"] = 6

\* the example file was loaded
MapperExampleLoaded ==
    /\ pc = "loaded"
    /\ header_row = ExampleHeader
    /\ contractor_row = ExampleContractorRow
    /\ AcmeCo \in DOMAIN contractor_map

\* C3: every entry has a unit_price_col, quantity_col is the column to its
\* left and extension_col the column to its right, each there exactly when
\* that column exists
MapperTripleInvariant ==
    pc = "loaded" =>
        \A name \in DOMAIN contractor_map :
            LET cols == contractor_map[name]
                u    == cols["unit_price_col"]
            IN  /\ Has(cols, "unit_price_col")
                /\ Has(cols, "quantity_col") => cols["quantity_col"] = u - 1
                /\ Has(cols, "extension_col") =>
                      /\ cols["extension_col"] = u + 1
                      /\ cols["extension_col"] < Len(header_row)
                /\ Has(cols, "quantity_col") <=> (u - 1 >= 0)
                /\ Has(cols, "extension_col") <=> (u + 1 < Len(header_row))

-----------------------------------------------------------------------------
(* Structural failure *)

StructuralFailure ==
    \/ lines <= header_index
    \/ \A i \in 1..Len(header_row) : header_row[i] # "Section Title"

\* C4: a file that is too short or has no "Section Title" header ends the
\* load in a failure, with no rows, no contractor map and no section list,
\* and no aggregation query is run on it
StructuralFailureAborts ==
    (pc # "start" /\ StructuralFailure) =>
        /\ pc \in {"failed", "stopped"}
        /\ df = <<>>
        /\ contractor_map = EmptyMap
        /\ section_list = <<>>
        /\ calls = {}

-----------------------------------------------------------------------------
(* Properties of SectionAssigner and section_list *)

\* the "new section" pattern
IsSentinel(v) ==
    /\ ~v.isna
    /\ \/ Contains(v.str, <<"Mill and Overlay">>)
       \/ Contains(v.str, <<"section - required">>)

TitleOf(i) == SectionTitle(header_row, df[i])

\* the rows at or before row i that open a section
Openers(i) == {j \in 1..i : IsSentinel(TitleOf(j))}

NearestOpener(i) == CHOOSE j \in Openers(i) : \A k \in Openers(i) : k <= j

\* C5: the Section of every row is the title of the nearest row at or before
\* it that carries a sentinel title, and is absent when there is none
SectionIsNearestSentinel ==
    pc = "loaded" =>
        \A i \in 1..Len(df) :
            IF Openers(i) = {} THEN df[i].Section.isna
            ELSE df[i].Section = TitleOf(NearestOpener(i))

FirstSeen(i) == \A j \in 1..(i - 1) : TitleOf(j) # TitleOf(i)

\* C6: section_list holds the distinct sentinel titles of the rows, once
\* each, in the order of their first rows, none with the base-bid-total
\* marker, and nothing else
SectionListIsSentinels ==
    pc = "loaded" =>
        LET firsts == {i \in 1..Len(df) :
                          /\ IsSentinel(TitleOf(i))
                          /\ ~Contains(TitleOf(i).str, BaseBidMarker)
                          /\ FirstSeen(i)}
        IN  /\ Len(section_list) = Cardinality(firsts)
            /\ \A k \in 1..Len(section_list) :
                  \E i \in firsts :
                      /\ section_list[k] = TitleOf(i).str
                      /\ Cardinality({j \in firsts : j < i}) = k - 1

\* C7: computing the Section column again on a loaded frame changes no label
SectionAssignerIdempotent ==
    [][(pc = "loaded" /\ reassigned') => df' = df]_vars

\* the Section column was computed again on a frame in which a row without
\* a title of its own carries the title of a row above it
SectionsAssignedTwice ==
    /\ pc = "loaded"
    /\ reassigned
    /\ \E i \in 1..Len(df) : TitleOf(i).isna /\ ~df[i].Section.isna

-----------------------------------------------------------------------------
(* Properties of NumericCoercer *)

Blank(v) == v.isna \/ \A i \in 1..Len(v.str) : v.str[i] = " "

\* the text without "$" and ",", and without the spaces around it
Cleaned(text) ==
    LET kept == SelectSeq(text, LAMBDA c : c \notin {"$", ","})
        span == CHOOSE ab \in (1..(Len(kept) + 1)) \X (0..Len(kept)) :
                   /\ \A k \in 1..(ab[1] - 1) : kept[k] = " "
                   /\ \A k \in (ab[2] + 1)..Len(kept) : kept[k] = " "
                   /\ \/ ab[1] = ab[2] + 1
                      \/ ab[1] <= ab[2] /\ kept[ab[1]] # " " /\ kept[ab[2]] # " "
    IN  SubSeq(kept, span[1], span[2])

AllDigits(t) == \A i \in 1..Len(t) : t[i] \in Digits

Unsigned(t) == IF t # <<>> /\ t[1] \in {"-", "+"} THEN SubSeq(t, 2, Len(t)) ELSE t

\* the ways to read t as whole digits, then possibly a point and more digits
Readings(t) ==
    {k \in 0..Len(Unsigned(t)) :
        LET u == Unsigned(t)
        IN  /\ AllDigits(SubSeq(u, 1, k))
            /\ \/ k = Len(u) /\ k > 0
               \/ /\ k < Len(u)
                  /\ u[k + 1] = "."
                  /\ AllDigits(SubSeq(u, k + 2, Len(u)))
                  /\ Len(u) > 1}

RECURSIVE Pow10(_)
Pow10(n) == IF n = 0 THEN 1 ELSE 10 * Pow10(n - 1)

RECURSIVE Whole(_)
Whole(t) == IF t = <<>> THEN 0 ELSE Whole(SubSeq(t, 1, Len(t) - 1)) * 10 + DigitVal(t[Len(t)])

\* n stands for the number that t, read with k whole digits, writes
Denotes(n, t, k) ==
    LET u     == Unsigned(t)
        fracs == IF k < Len(u) THEN SubSeq(u, k + 2, Len(u)) ELSE <<>>
        sign  == IF t[1] = "-" THEN 0 - 1 ELSE 1
    IN  n.mant * Pow10(Len(fracs)) =
            sign * (Whole(SubSeq(u, 1, k)) * Pow10(Len(fracs)) + Whole(fracs)) * Pow10(n.frac)

\* C8: a blank value is absent and nothing else is; a value that reads as a
\* number once "$", "," and the spaces around it are removed is that number,
\* zero included; every other value is a failure that carries the text
CoercerThreeOutcomes ==
    pc = "coerced" =>
        /\ Blank(raw_value) <=> outcome.kind = "absent"
        /\ ~Blank(raw_value) =>
              IF Readings(Cleaned(raw_value.str)) # {}
              THEN /\ outcome.kind = "number"
                   /\ \A k \in Readings(Cleaned(raw_value.str)) :
                         Denotes(outcome.val, Cleaned(raw_value.str), k)
              ELSE outcome = [kind |-> "failure", raw |-> raw_value.str]
        /\ raw_value = Str(Money1234_00) =>
              outcome = [kind |-> "number", val |-> [mant |-> 1234, frac |-> 0]]
        /\ raw_value = Str(<<>>) => outcome = [kind |-> "absent"]
        /\ raw_value = Str(Abc) => outcome = [kind |-> "failure", raw |-> Abc]
        /\ raw_value = Str(<<"0">>) =>
              outcome = [kind |-> "number", val |-> [mant |-> 0, frac |-> 0]]

\* "$1,234.00" was coerced
CoercedMoney ==
    /\ pc = "coerced"
    /\ raw_value = Str(Money1234_00)
    /\ outcome.kind = "number"

-----------------------------------------------------------------------------
(* Properties of the Aggregator *)

\* the rows of the frame whose title carries the base-bid-total marker
BaseBidRows == {i \in 1..Len(df) : Contains(TitleOf(i).str, BaseBidMarker)}

FirstOf(S) == CHOOSE i \in S : \A j \in S : i <= j

\* what the cell of row i in a contractor's extension column coerces to;
\* absent when the contractor has no such column or the row is too short
ExtensionOf(i, name) ==
    LET cols == contractor_map[name]
    IN  IF Has(cols, "extension_col") /\ cols["extension_col"] < Len(df[i].cells)
        THEN NumericCoercer(df[i].cells[cols["extension_col"] + 1])
        ELSE Absent

Counts(c) == c.kind = "number" /\ c.val.mant # 0

\* C9: total_bids holds a contractor exactly when there is a base-bid-total
\* row and the contractor's extension cell in it is present, coercible and
\* not zero, and then holds the coerced number
TotalBidsExact ==
    (pc = "loaded" /\ "get_total_bids" \in calls) =>
        /\ DOMAIN total_bids \subseteq DOMAIN contractor_map
        /\ BaseBidRows = {} => DOMAIN total_bids = {}
        /\ \A name \in DOMAIN contractor_map :
              /\ name \in DOMAIN total_bids <=>
                    /\ BaseBidRows # {}
                    /\ Counts(ExtensionOf(FirstOf(BaseBidRows), name))
              /\ name \in DOMAIN total_bids =>
                    /\ total_bids[name] = ExtensionOf(FirstOf(BaseBidRows), name).val
                    /\ total_bids[name].mant # 0
        /\ \A i \in BaseBidRows, name \in DOMAIN contractor_map :
              (i = FirstOf(BaseBidRows)
                 /\ Has(contractor_map[name], "extension_col")
                 /\ Iloc(df[i], contractor_map[name]["extension_col"]) = Str(Money1234_50))
              => /\ name \in DOMAIN total_bids
                 /\ total_bids[name] = [mant |-> 12345, frac |-> 1]

\* total_bids was computed from a base-bid-total row that holds "$1,234.50"
\* for one contractor and nothing for the other
TotalBidsFromBaseRow ==
    /\ pc = "loaded"
    /\ "get_total_bids" \in calls
    /\ BaseBidRows # {}
    /\ \E name \in DOMAIN total_bids : total_bids[name] = [mant |-> 12345, frac |-> 1]
    /\ \E name \in DOMAIN contractor_map : name \notin DOMAIN total_bids

\* the rows whose trimmed title is the trimmed text of a section
RowsOfSection(section) ==
    {i \in 1..Len(df) : ~TitleOf(i).isna /\ Strip(TitleOf(i).str) = Strip(section)}

SectionContractors(section) ==
    IF RowsOfSection(section) = {} THEN {}
    ELSE {name \in DOMAIN contractor_map :
             Counts(ExtensionOf(FirstOf(RowsOfSection(section)), name))}

\* C10: for every section of section_list, section_totals holds exactly the
\* contractors whose extension cell in the section's row is present,
\* coercible and not zero, with the coerced value, whatever spaces stand
\* around the title in the file
SectionTotalsExact ==
    (pc = "loaded" /\ "get_section_totals" \in calls) =>
        \A k \in 1..Len(section_list) :
            LET section == section_list[k]
            IN  /\ section \in DOMAIN section_totals <=> SectionContractors(section) # {}
                /\ section \in DOMAIN section_totals =>
                      /\ DOMAIN section_totals[section] = SectionContractors(section)
                      /\ \A name \in DOMAIN section_totals[section] :
                            /\ section_totals[section][name] =
                                  ExtensionOf(FirstOf(RowsOfSection(section)), name).val
                            /\ section_totals[section][name].mant # 0

\* the members of a list
Members(list) == {list[k] : k \in 1..Len(list)}

\* C11: every contractor of total_bids and of any section's totals is a key
\* of the document's contractor_map, and every section key of section_totals
\* is a member of section_list
TotalsReferToKnownNames ==
    pc = "loaded" =>
        /\ "get_total_bids" \in calls =>
              DOMAIN total_bids \subseteq DOMAIN contractor_map
        /\ "get_section_totals" \in calls =>
              \A section \in DOMAIN section_totals :
                  /\ section \in Members(section_list)
                  /\ DOMAIN section_totals[section] \subseteq DOMAIN contractor_map

\* both queries returned totals, and a contractor of the map is without one
TotalsOfBothQueries ==
    /\ pc = "loaded"
    /\ {"get_total_bids", "get_section_totals"} \subseteq calls
    /\ DOMAIN total_bids # {}
    /\ \E section \in DOMAIN section_totals :
          /\ DOMAIN section_totals[section] # {}
          /\ DOMAIN section_totals[section] # DOMAIN contractor_map

\* the Section labels of the frame
SectionLabels == {df[i].Section.str : i \in {j \in 1..Len(df) : ~df[j].Section.isna}}

\* the rows of a section that carry an item description
ItemRowsOf(section) ==
    {i \in 1..Len(df) : /\ ~df[i].Section.isna
                         /\ df[i].Section.str = section
                         /\ ~ItemDescription(header_row, df[i]).isna}

\* what the cell of row i in a contractor's unit price column coerces to
UnitPriceOf(i, name) ==
    LET cols == contractor_map[name]
    IN  IF Has(cols, "unit_price_col") /\ cols["unit_price_col"] < Len(df[i].cells)
        THEN NumericCoercer(df[i].cells[cols["unit_price_col"] + 1])
        ELSE Absent

\* the item rows of a section with a price that is not zero
PricedItemsOf(section) ==
    {i \in ItemRowsOf(section) :
        \E name \in DOMAIN contractor_map : Counts(UnitPriceOf(i, name))}

TrimmedDescription(i) == Strip(ItemDescription(header_row, df[i]).str)

KeyOfRow(i) ==
    UniqueKey(TrimmedDescription(i), Strip(PyStr(LineItem(header_row, df[i]))))

EntriesOf(section) ==
    IF section \in DOMAIN line_items THEN DOMAIN line_items[section] ELSE {}

\* C12: within one section, two distinct rows with an item description and
\* a non-zero price have distinct unique keys, and the section has as many
\* entries as it has such rows
LineItemKeysDistinct ==
    (pc = "loaded" /\ "get_line_items_by_section" \in calls) =>
        \A section \in SectionLabels :
            /\ \A i, j \in PricedItemsOf(section) :
                  i # j => KeyOfRow(i) # KeyOfRow(j)
            /\ Cardinality(EntriesOf(section)) = Cardinality(PricedItemsOf(section))

\* the rows of a section whose trimmed description is that of row i
SameDescription(section, i) ==
    {j \in ItemRowsOf(section) : TrimmedDescription(j) = TrimmedDescription(i)}

\* the label the row is to be shown under
LabelOfRow(section, i) ==
    IF Cardinality(SameDescription(section, i)) > 1
    THEN TrimmedDescription(i) \o <<" [Line ">>
            \o Strip(PyStr(LineItem(header_row, df[i]))) \o <<"]">>
    ELSE TrimmedDescription(i)

LabelsOf(section) ==
    IF section \in DOMAIN display_map THEN DOMAIN display_map[section] ELSE {}

\* C13: the display label of a row carries the line number exactly when the
\* trimmed description of the row stands on more than one row of its
\* section, whatever the other sections hold
DisplayLabelsDisambiguate ==
    (pc = "loaded" /\ "get_line_items_by_section" \in calls) =>
        \A section \in SectionLabels :
            LabelsOf(section) = {LabelOfRow(section, i) : i \in PricedItemsOf(section)}

\* the price map stored for row i of a section
PriceMapOf(section, i) ==
    IF KeyOfRow(i) \in EntriesOf(section)
    THEN line_items[section][KeyOfRow(i)]
    ELSE EmptyMap

\* C14: a contractor is in the price map of a row exactly when the row's cell
\* in the contractor's unit price column is in range, present, coercible and
\* not zero, with the coerced price; no stored price is zero, and a row or a
\* section without such a price has no entry
LineItemPricesExact ==
    (pc = "loaded" /\ "get_line_items_by_section" \in calls) =>
        /\ \A section \in SectionLabels :
              /\ \A i \in ItemRowsOf(section) :
                    /\ \A name \in DOMAIN contractor_map :
                          /\ name \in DOMAIN PriceMapOf(section, i)
                                <=> Counts(UnitPriceOf(i, name))
                          /\ name \in DOMAIN PriceMapOf(section, i) =>
                                PriceMapOf(section, i)[name] = UnitPriceOf(i, name).val
                    /\ i \notin PricedItemsOf(section) =>
                          KeyOfRow(i) \notin EntriesOf(section)
              /\ PricedItemsOf(section) = {} => section \notin DOMAIN line_items
        /\ \A section \in DOMAIN line_items :
              /\ section \in SectionLabels
              /\ \A key \in DOMAIN line_items[section] :
                    /\ DOMAIN line_items[section][key] # {}
                    /\ DOMAIN line_items[section][key] \subseteq DOMAIN contractor_map
                    /\ \A name \in DOMAIN line_items[section][key] :
                          line_items[section][key][name].mant # 0

\* the line of the file that row i of the frame was read from
FileRow(i) == data_rows[df[i].idx + 1]

TripleKeys == {"quantity_col", "unit_price_col", "extension_col"}

FieldKind(key) ==
    CASE key = "quantity_col"   -> "quantity"
      [] key = "unit_price_col" -> "unit price"
      [] key = "extension_col"  -> "extension"

\* the text of row i in the column that the contractor's entry names under
\* key; blank when there is no such column in the row
FileCell(i, name, key) ==
    LET cols == contractor_map[name]
    IN  IF Has(cols, key) /\ cols[key] < Len(FileRow(i))
        THEN FileRow(i)[cols[key] + 1]
        ELSE <<>>

\* a text that is present and that the coercion cannot read
NotNumeric(text) == NumericCoercer(Str(text)).kind = "failure"

\* the checks of a row, a contractor and a field whose own cell is not numeric
FailedChecks ==
    {c \in (1..Len(df)) \X (DOMAIN contractor_map) \X TripleKeys :
        NotNumeric(FileCell(c[1], c[2], c[3]))}

Errors == {parse_errors[e] : e \in 1..Len(parse_errors)}

\* C15: the validator checks, for every data row, every contractor and each
\* of quantity, unit price and extension, the cell of that same row in the
\* contractor's own column: every such cell that is present and not numeric
\* has a ParseError of that contractor, field and text, and there are no
\* other ParseErrors
ValidatorChecksOwnRow ==
    pc = "loaded" =>
        /\ \A c \in FailedChecks :
              \E e \in Errors : /\ e.contractor = c[2]
                                 /\ e.field = FieldKind(c[3])
                                 /\ e.raw = FileCell(c[1], c[2], c[3])
        /\ Len(parse_errors) = Cardinality(FailedChecks)

\* C16: the row number of every ParseError is the 1-based number of the
\* line of the file that holds the offending cell
ParseErrorRowIsFileLine ==
    pc = "loaded" =>
        \A e \in Errors :
            \E i \in 1..Len(data_rows) :
                /\ e.row = header_index + 1 + i
                /\ \E k \in 1..Len(data_rows[i]) : data_rows[i][k] = e.raw

\* the cells, by row and column, that a failed check stands on
BadCells == {<<c[1], contractor_map[c[2]][c[3]]>> : c \in FailedChecks}

\* C17: with several contractors, one cell that is not numeric and that
\* belongs to one contractor's triple yields exactly one ParseError, of that
\* contractor, of the field the cell is in the triple, and of the cell's
\* text; and when the only such cell is in a contractor's extension column,
\* no ParseError names another contractor
OneFailureOneParseError ==
    (pc = "loaded" /\ Cardinality(DOMAIN contractor_map) > 1) =>
        /\ (Cardinality(BadCells) = 1 /\ Cardinality(FailedChecks) = 1) =>
              \A c \in FailedChecks :
                  /\ Len(parse_errors) = 1
                  /\ parse_errors[1].contractor = c[2]
                  /\ parse_errors[1].field = FieldKind(c[3])
                  /\ parse_errors[1].raw = FileCell(c[1], c[2], c[3])
        /\ \A c \in FailedChecks :
              (Cardinality(BadCells) = 1 /\ c[3] = "extension_col") =>
                  \A e \in Errors : e.contractor = c[2]

\* the columns that the contractors' entries name
TripleColumns ==
    UNION {{contractor_map[name][key] :
                key \in {k \in TripleKeys : Has(contractor_map[name], k)}} :
           name \in DOMAIN contractor_map}

\* the frame with every cell of those columns that is not numeric left blank
Blanked(rows) ==
    [i \in 1..Len(rows) |->
        [rows[i] EXCEPT !.cells =
            [k \in 1..Len(rows[i].cells) |->
                IF (k - 1) \in TripleColumns
                   /\ NumericCoercer(rows[i].cells[k]).kind = "failure"
                THEN NaN
                ELSE rows[i].cells[k]]]]

\* the rows that get_section_totals reads: the first row of every section
SectionTotalRows ==
    {i \in 1..Len(df) :
        \E k \in 1..Len(section_list) :
            /\ ~TitleOf(i).isna
            /\ Strip(TitleOf(i).str) = section_list[k]
            /\ \A j \in 1..(i - 1) :
                  TitleOf(j).isna \/ Strip(TitleOf(j).str) # section_list[k]}

\* the cells, by row, contractor and column key, that a query which was
\* run read and left out because the coercion failed
SkippedCells ==
    {c \in (1..Len(df)) \X (DOMAIN contractor_map) \X {"extension_col"} :
        /\ \/ /\ "get_total_bids" \in calls
              /\ BaseBidRows # {}
              /\ c[1] = FirstOf(BaseBidRows)
           \/ /\ "get_section_totals" \in calls
              /\ c[1] \in SectionTotalRows
        /\ ExtensionOf(c[1], c[2]).kind = "failure"}
    \cup
    {c \in (1..Len(df)) \X (DOMAIN contractor_map) \X {"unit_price_col"} :
        /\ "get_line_items_by_section" \in calls
        /\ \E section \in SectionLabels : c[1] \in ItemRowsOf(section)
        /\ UnitPriceOf(c[1], c[2]).kind = "failure"}

\* C18: a cell that cannot be coerced counts as absent in the three queries,
\* whose results are those of the frame with that cell blank, and every cell
\* a query left out because it cannot be coerced has a ParseError of its
\* contractor, field and text
FailuresAreLocalAndRecorded ==
    pc = "loaded" =>
        /\ "get_total_bids" \in calls =>
              total_bids = get_total_bids(header_row, Blanked(df), contractor_map)
        /\ "get_section_totals" \in calls =>
              section_totals = get_section_totals(header_row, Blanked(df),
                                                  contractor_map, section_list)
        /\ "get_line_items_by_section" \in calls =>
              /\ line_items =
                    get_line_items_by_section(header_row, Blanked(df),
                                              contractor_map).line_items
              /\ display_map =
                    get_line_items_by_section(header_row, Blanked(df),
                                              contractor_map).display_map
        /\ \A c \in SkippedCells :
              \E e \in Errors :
                  /\ e.contractor = c[2]
                  /\ e.field = FieldKind(c[3])
                  /\ e.raw = df[c[1]].cells[contractor_map[c[2]][c[3]] + 1].str

\* no name stands over a "Unit Price" column of the file
NoContractors ==
    \A i \in UnitPriceIndices : TrimmedName(CellAt(contractor_row, i)) = <<>>

\* the file has no line after the header that holds anything
NoDataRows ==
    \A i \in 1..Len(data_rows) : \A k \in 1..Len(data_rows[i]) : data_rows[i][k] = <<>>

\* C19: a file that has its header rows and either no contractor or no data
\* row loads, with no ParseError, and each of the three queries returns an
\* empty result on it
EmptyDocumentLoads ==
    (pc # "start" /\ ~StructuralFailure /\ (NoContractors \/ NoDataRows)) =>
        /\ pc = "loaded"
        /\ parse_errors = <<>>
        /\ NoContractors => contractor_map = EmptyMap
        /\ NoDataRows => df = <<>>
        /\ total_bids = EmptyMap
        /\ section_totals = EmptyMap
        /\ line_items = EmptyMap
        /\ display_map = EmptyMap

\* the three queries ran on a worksheet that has a section row with amounts
\* and no contractor
QueriesOnNoContractors ==
    /\ pc = "loaded"
    /\ NoContractors
    /\ calls = {"get_total_bids", "get_section_totals", "get_line_items_by_section"}
    /\ section_list # <<>>
    /\ \E i \in 1..Len(df) : ~df[i].Section.isna /\ ~ItemDescription(header_row, df[i]).isna

\* C20: a run of get_total_bids, get_section_totals or
\* get_line_items_by_section leaves the rows and their Section labels, the
\* contractor map, section_list and the ParseError list as they were, and a
\* query that ran before returns the result it returned then
QueriesArePureReads ==
    [][(pc = "loaded" /\ reassigned' = reassigned) =>
          /\ df' = df
          /\ contractor_map' = contractor_map
          /\ section_list' = section_list
          /\ parse_errors' = parse_errors
          /\ "get_total_bids" \in calls => total_bids' = total_bids
          /\ "get_section_totals" \in calls => section_totals' = section_totals
          /\ "get_line_items_by_section" \in calls =>
                (line_items' = line_items /\ display_map' = display_map)]_vars

\* the three queries ran on a worksheet with ParseErrors and each returned
\* something
QueriesRanOnFlawedDocument ==
    /\ pc = "loaded"
    /\ calls = {"get_total_bids", "get_section_totals", "get_line_items_by_section"}
    /\ parse_errors # <<>>
    /\ total_bids # EmptyMap
    /\ section_totals # EmptyMap
    /\ line_items # EmptyMap
    /\ \E i \in 1..Len(df) : ~Contains(TitleOf(i).str, BaseBidMarker)

\* C22: every section key of line_items is a member of section_list, and no
\* line item stands under a label that contains the base-bid-total marker,
\* also when its row comes after the base-bid-total row
LineItemSectionsAreListed ==
    (pc = "loaded" /\ "get_line_items_by_section" \in calls) =>
        \A section \in DOMAIN line_items :
            /\ section \in Members(section_list)
            /\ ~Contains(section, BaseBidWord)

\* the unique keys that the labels of a section lead to
KeysSelectable(section) ==
    {display_map[section][label] : label \in DOMAIN display_map[section]}

\* C23: line_items and display_map have the same section keys, and in every
\* section the display labels and the unique keys of the line items
\* correspond one to one
DisplayMapIsBijection ==
    (pc = "loaded" /\ "get_line_items_by_section" \in calls) =>
        /\ DOMAIN display_map = DOMAIN line_items
        /\ \A section \in DOMAIN line_items :
              /\ KeysSelectable(section) = DOMAIN line_items[section]
              /\ \A a, b \in DOMAIN display_map[section] :
                    display_map[section][a] = display_map[section][b] => a = b

\* what loading the file alone gives: its rows, contractor map, section_list
\* and section totals
ModelAlone(file) ==
    YearEntry(file.doc, Load(file.doc.lines, file.doc.header_row,
                             file.doc.contractor_row, file.doc.data_rows))

\* C21: every file that the loop has processed has its own entry in
\* data_by_year, equal to what loading that file alone gives, whatever files
\* were processed after it
FilesKeepTheirModel ==
    pc = "files" =>
        /\ Cardinality(DOMAIN data_by_year) = processed
        /\ \A k \in 1..processed :
              /\ YearOf(selected_csvs[k].name) \in DOMAIN data_by_year
              /\ data_by_year[YearOf(selected_csvs[k].name)] =
                    ModelAlone(selected_csvs[k])

====
